---------------------------- MODULE Spec2Model ----------------------------
(***************************************************************************)
(* The two Apps Script API tool wrappers, script_run and                   *)
(* script_projects_versions_list: each invocation of executeFunction as a  *)
(* process that advances from one await point to the next.                 *)
(*                                                                         *)
(* Text is a sequence of tokens.  A token is either one reserved           *)
(* character ("/", "?", "#", "&", "=", ":", ".", " ", ...) or an atom that   *)
(* stands for a run of unreserved characters ("v1", "scripts", "X").       *)
(* JavaScript values are records tagged by their type.                     *)
(***************************************************************************)
EXTENDS Integers, Sequences, FiniteSets, TLC

(* ------------------------------ bounds -------------------------------- *)

\* longest scriptId, in tokens, that the specifications enumerate
MaxLen == 3
\* number of invocations that run interleaved under SpecConc
NumInv == 2

(* ------------------------- JavaScript values -------------------------- *)

Undefined == [type |-> "undefined"]
Null == [type |-> "null"]
Bool(b) == [type |-> "boolean", b |-> b]
Num(n) == [type |-> "number", n |-> n]
Str(s) == [type |-> "string", s |-> s]
Arr(a) == [type |-> "array", a |-> a]
\* an object is its own properties in insertion order, each <<name, value>>
Obj(o) == [type |-> "object", o |-> o]

\* ToBoolean, as `if (fields)` and `a || b` apply it
Truthy(v) ==
  CASE v.type = "undefined" -> FALSE
    [] v.type = "null" -> FALSE
    [] v.type = "boolean" -> v.b
    [] v.type = "number" -> v.n # 0
    [] v.type = "string" -> v.s # <<>>
    [] OTHER -> TRUE

\* a destructuring default applies when the property is absent or undefined
Default(v, d) == IF v = Undefined THEN d ELSE v

\* v.toString() throws a TypeError on undefined and null
CanToString(v) == v.type \notin {"undefined", "null"}

RECURSIVE ToStr(_)
\* String(v): what a template literal and URLSearchParams.append make of v
ToStr(v) ==
  CASE v.type = "undefined" -> <<"undefined">>
    [] v.type = "null" -> <<"null">>
    [] v.type = "boolean" -> IF v.b THEN <<"true">> ELSE <<"false">>
    [] v.type = "number" -> <<ToString(v.n)>>
    [] v.type = "string" -> v.s
    [] v.type = "array" ->
         IF v.a = <<>> THEN <<>>
         ELSE IF Len(v.a) = 1 THEN ToStr(Head(v.a))
         ELSE ToStr(Head(v.a)) \o <<",">> \o ToStr(Arr(Tail(v.a)))
    [] OTHER -> <<"[object Object]">>

\* v[name]; reading a property of undefined or null throws (see CanRead)
Get(v, name) ==
  IF v.type = "object" /\ \E k \in 1..Len(v.o) : v.o[k][1] = name
  THEN v.o[CHOOSE k \in 1..Len(v.o) : v.o[k][1] = name][2]
  ELSE Undefined

CanRead(v) == v.type \notin {"undefined", "null"}

\* v?.[name]
OptGet(v, name) == IF CanRead(v) THEN Get(v, name) ELSE Undefined

(* ------------------------------- text --------------------------------- *)

RECURSIVE Concat(_)
Concat(ss) == IF ss = <<>> THEN <<>> ELSE Head(ss) \o Concat(Tail(ss))

\* index of the first token of s that is in D, or Len(s) + 1
FirstIn(s, D) ==
  IF \E k \in 1..Len(s) : s[k] \in D
  THEN CHOOSE k \in 1..Len(s) : s[k] \in D /\ \A j \in 1..(k - 1) : s[j] \notin D
  ELSE Len(s) + 1

RECURSIVE Split(_, _)
\* s cut at every token of D: at least one piece, possibly empty
Split(s, D) ==
  LET k == FirstIn(s, D)
  IN  IF k > Len(s) THEN <<s>>
      ELSE <<SubSeq(s, 1, k - 1)>> \o Split(SubSeq(s, k + 1, Len(s)), D)

Contains(s, t) ==
  \E k \in 0..(Len(s) - Len(t)) : SubSeq(s, k + 1, k + Len(t)) = t


(* ------------------------ WHATWG URL (https) -------------------------- *)

baseUrl == <<"https:", "/", "/", "script.googleapis.com">>

SingleDot == <<".">>
DoubleDot == <<".", ".">>

RECURSIVE PathSegments(_, _)
\* the URL parser's path state: pieces are the runs between slashes, the last
\* one ended by the end of the path; dot segments are dropped or pop the path
PathSegments(pieces, acc) ==
  IF pieces = <<>> THEN acc
  ELSE LET buf == Head(pieces)
           last == Len(pieces) = 1
           popped == IF acc = <<>> THEN acc ELSE SubSeq(acc, 1, Len(acc) - 1)
       IN  IF buf = DoubleDot
           THEN PathSegments(Tail(pieces), IF last THEN Append(popped, <<>>) ELSE popped)
           ELSE IF buf = SingleDot
           THEN PathSegments(Tail(pieces), IF last THEN Append(acc, <<>>) ELSE acc)
           ELSE PathSegments(Tail(pieces), Append(acc, buf))

FormEncoded ==
  [t \in {" ", "/", "?", "#", "&", "=", ":", "+", ","} |->
     CASE t = " " -> "+"
       [] t = "/" -> "%2F"
       [] t = "?" -> "%3F"
       [] t = "#" -> "%23"
       [] t = "&" -> "%26"
       [] t = "=" -> "%3D"
       [] t = ":" -> "%3A"
       [] t = "+" -> "%2B"
       [] t = "," -> "%2C"]

\* the application/x-www-form-urlencoded byte serializer, token by token
FormEncode(s) ==
  [k \in 1..Len(s) |-> IF s[k] \in DOMAIN FormEncoded THEN FormEncoded[s[k]] ELSE s[k]]

\* "+" to space, then percent-decoding
FormDecode(s) ==
  [k \in 1..Len(s) |->
     IF \E t \in DOMAIN FormEncoded : FormEncoded[t] = s[k]
     THEN CHOOSE t \in DOMAIN FormEncoded : FormEncoded[t] = s[k]
     ELSE s[k]]

RECURSIVE FormSerialize(_)
\* URLSearchParams.toString(): name=value pairs joined by "&"
FormSerialize(list) ==
  IF list = <<>> THEN <<>>
  ELSE LET pair == FormEncode(Head(list)[1]) \o <<"=">> \o FormEncode(Head(list)[2])
       IN  IF Len(list) = 1 THEN pair
           ELSE pair \o <<"&">> \o FormSerialize(Tail(list))

RECURSIVE FormPairs(_)
FormPairs(pieces) ==
  IF pieces = <<>> THEN <<>>
  ELSE LET p == Head(pieces)
           k == FirstIn(p, {"="})
       IN  IF p = <<>> THEN FormPairs(Tail(pieces))
           ELSE <<<<FormDecode(SubSeq(p, 1, k - 1)),
                    FormDecode(SubSeq(p, k + 1, Len(p)))>>>> \o FormPairs(Tail(pieces))

\* the application/x-www-form-urlencoded parser
FormParse(query) == FormPairs(Split(query, {"&"}))

\* new URL(s), for s on baseUrl: path up to the first "?" or "#", query up to
\* the first "#", then the fragment; searchParams is the parsed query
NewURL(s) ==
  LET rest == SubSeq(s, Len(baseUrl) + 1, Len(s))
      p == FirstIn(rest, {"?", "#"})
      tail == SubSeq(rest, p, Len(rest))
      h == FirstIn(tail, {"#"})
      hasQuery == tail # <<>> /\ Head(tail) = "?"
      query == IF hasQuery THEN SubSeq(tail, 2, h - 1) ELSE <<>>
  IN  [path |-> PathSegments(Tail(Split(SubSeq(rest, 1, p - 1), {"/", "\\"})), <<>>),
       hasQuery |-> hasQuery,
       query |-> query,
       params |-> FormParse(query),
       hasFragment |-> h <= Len(tail),
       fragment |-> SubSeq(tail, h + 1, Len(tail))]

RECURSIVE PathText(_)
PathText(segs) ==
  IF segs = <<>> THEN <<>> ELSE <<"/">> \o Head(segs) \o PathText(Tail(segs))

\* url.pathname
Pathname(url) == IF url.path = <<>> THEN <<"/">> ELSE PathText(url.path)

\* url.toString()
Href(url) ==
  baseUrl \o Pathname(url)
    \o (IF url.hasQuery THEN <<"?">> \o url.query ELSE <<>>)
    \o (IF url.hasFragment THEN <<"#">> \o url.fragment ELSE <<>>)

\* url.search = value: the empty string clears the query
SetSearch(url, value) ==
  LET v == IF value # <<>> /\ Head(value) = "?" THEN Tail(value) ELSE value
  IN  [url EXCEPT !.hasQuery = value # <<>>, !.query = v, !.params = FormParse(v)]

\* url.searchParams.append(name, value): the list grows and the query is
\* rewritten as the serialized list
SearchAppend(url, name, value) ==
  LET list == Append(url.params, <<name, value>>)
  IN  [url EXCEPT !.params = list, !.hasQuery = TRUE, !.query = FormSerialize(list)]

\* the names of the query parameters a server reads from a request URL
QueryKeys(href) ==
  LET list == NewURL(href).params IN {list[k][1] : k \in 1..Len(list)}

\* the value of the first query parameter called name, <<"(absent)">> without one
QueryValue(href, name) ==
  LET list == NewURL(href).params
  IN  IF \E k \in 1..Len(list) : list[k][1] = name
      THEN list[CHOOSE k \in 1..Len(list) :
                  list[k][1] = name /\ \A j \in 1..(k - 1) : list[j][1] # name][2]
      ELSE <<"(absent)">>

(* ------------------------------- JSON --------------------------------- *)

RECURSIVE JSONstringify(_)
RECURSIVE JSONelements(_)
RECURSIVE JSONmembers(_, _)
\* array elements: undefined is written as null
JSONelements(a) ==
  IF a = <<>> THEN <<>>
  ELSE (IF Head(a) = Undefined THEN <<"null">> ELSE JSONstringify(Head(a)))
         \o (IF Len(a) = 1 THEN <<>> ELSE <<",">> \o JSONelements(Tail(a)))

\* object members: a property whose value is undefined is left out
JSONmembers(o, first) ==
  IF o = <<>> THEN <<>>
  ELSE IF Head(o)[2] = Undefined THEN JSONmembers(Tail(o), first)
  ELSE (IF first THEN <<>> ELSE <<",">>)
         \o <<"\"", Head(o)[1], "\"", ":">> \o JSONstringify(Head(o)[2])
         \o JSONmembers(Tail(o), FALSE)

\* JSON.stringify(v), v not undefined
JSONstringify(v) ==
  CASE v.type = "null" -> <<"null">>
    [] v.type = "boolean" -> IF v.b THEN <<"true">> ELSE <<"false">>
    [] v.type = "number" -> <<ToString(v.n)>>
    [] v.type = "string" -> <<"\"">> \o v.s \o <<"\"">>
    [] v.type = "array" -> <<"[">> \o JSONelements(v.a) \o <<"]">>
    [] v.type = "object" -> <<"{">> \o JSONmembers(v.o, TRUE) \o <<"}">>

(* ------------------- arguments, replies, JSON texts ------------------- *)

Inv == 1..NumInv

ArgNames ==
  {"scriptId", "functionName", "parameters", "devMode", "fields", "alt", "key",
   "access_token", "oauth_token", "quotaUser", "prettyPrint", "pageSize", "pageToken"}

\* the argument object {}: every property absent
NoArgs == [n \in ArgNames |-> Undefined]

\* the fields the two tool definitions declare required
Required(t) == IF t = "run" THEN {"scriptId", "functionName"} ELSE {"scriptId"}

SidAlphabet == {"X", "?", "#", "/", "."}

Texts(A, n) == UNION {[1..k -> A] : k \in 0..n}

ScriptIds == {Str(s) : s \in Texts(SidAlphabet, MaxLen)}

Secret == Str(<<"SECRET">>)

MaybeSecret == {Undefined, Secret}

\* argument objects for script_run: the scriptId varied, then the body fields
\* varied, then the query and credential fields varied
RunArgSet ==
  {[NoArgs EXCEPT !.scriptId = sid, !.functionName = Str(<<"f">>),
                  !.parameters = Arr(<<Num(1), Num(2)>>)] :
     sid \in ScriptIds}
  \cup
  {[NoArgs EXCEPT !.scriptId = sid, !.functionName = fn, !.parameters = ps, !.devMode = dm] :
     sid \in {Undefined, Str(<<"X">>)},
     fn \in {Undefined, Str(<<"f">>)},
     ps \in {Undefined, Arr(<<>>), Arr(<<Num(1), Num(2)>>), Arr(<<Undefined>>)},
     dm \in {Undefined, Bool(TRUE), Bool(FALSE)}}
  \cup
  {[NoArgs EXCEPT !.scriptId = Str(<<"X">>), !.functionName = Str(<<"f">>),
                  !.fields = fl, !.alt = al, !.key = ky, !.access_token = at,
                  !.oauth_token = ot, !.quotaUser = qu, !.prettyPrint = pp] :
     fl \in {Undefined, Str(<<"id", "&", "key", "=", "SECRET">>)},
     al \in {Undefined, Str(<<"xml">>)},
     ky \in MaybeSecret, at \in MaybeSecret, ot \in MaybeSecret,
     qu \in {Undefined, Str(<<"u">>)},
     pp \in {Undefined, Bool(TRUE), Bool(FALSE), Null}}

\* argument objects for script_projects_versions_list
ListArgSet ==
  {[NoArgs EXCEPT !.scriptId = sid] : sid \in ScriptIds \cup {Undefined}}
  \cup
  {[NoArgs EXCEPT !.scriptId = Str(<<"X">>), !.pageSize = sz, !.pageToken = pt,
                  !.fields = fl, !.key = ky, !.access_token = at,
                  !.oauth_token = ot, !.prettyPrint = pp] :
     sz \in {Undefined, Num(0), Num(50), Null},
     pt \in {Undefined, Str(<<"next">>)},
     fl \in {Undefined, Str(<<"id", "&", "key", "=", "SECRET">>)},
     ky \in MaybeSecret, at \in MaybeSecret, ot \in MaybeSecret,
     pp \in {Undefined, Bool(TRUE), Bool(FALSE)}}

ArgSet(t) == IF t = "run" THEN RunArgSet ELSE ListArgSet

\* the argument object of the i-th of the interleaved invocations: each has
\* a scriptId of its own
ConcArgs(i) ==
  [NoArgs EXCEPT !.scriptId = Str(<<"X", ToString(i)>>), !.functionName = Str(<<"f">>)]

\* bearer tokens the credential helper may hand out
Tokens == {<<"tokA">>, <<"tokB">>}

\* decoded response bodies the remote API may send
JsonReplies ==
  { Obj(<<<<"done", Bool(TRUE)>>,
          <<"response", Obj(<<<<"result", Num(1)>>>>)>>>>),
    Obj(<<<<"done", Bool(TRUE)>>,
          <<"error", Obj(<<<<"message", Str(<<"boom">>)>>>>)>>>>),
    Obj(<<<<"versions", Arr(<<Obj(<<<<"versionNumber", Num(1)>>>>)>>)>>>>),
    Obj(<<>>),
    Null,
    Obj(<<<<"error", Obj(<<<<"code", Num(404)>>,
                           <<"message", Str(<<"NotFound">>)>>>>)>>>>),
    Obj(<<<<"message", Str(<<"denied">>)>>>>) }

\* a body that is no JSON text
HtmlBody == <<"<html>">>

Bodies == {JSONstringify(v) : v \in JsonReplies} \cup {HtmlBody}

Statuses == {200, 404}

Replies == [status : Statuses, body : Bodies]

\* the replies enumerated when several invocations are in flight: a 2xx
\* with an object, a 2xx with null, a non-2xx with a body that is no JSON
ConcReplies ==
  {[status |-> 200, body |-> JSONstringify(Obj(<<>>))],
   [status |-> 200, body |-> JSONstringify(Null)],
   [status |-> 404, body |-> HtmlBody]}

\* no answer yet
NoReply == [status |-> 0, body |-> <<>>]

\* the fetch failed in transport
Unreachable == [status |-> 0, body |-> <<"(unreachable)">>]

ReplyOk(r) == r.status \in 200..299

\* the values JSON.parse can produce here: the replies, and what a script_run
\* request body reads back as
JsonValues ==
  JsonReplies \cup
  {Obj(fn \o <<<<"parameters", ps>>>> \o dm) :
     fn \in {<<>>, <<<<"function", Str(<<"f">>)>>>>},
     ps \in {Arr(<<>>), Arr(<<Num(1), Num(2)>>), Arr(<<Null>>)},
     dm \in {<<<<"devMode", Bool(TRUE)>>>>, <<<<"devMode", Bool(FALSE)>>>>}}

IsJSON(text) == \E v \in JsonValues : JSONstringify(v) = text

\* JSON.parse(text), for a text IsJSON accepts
JSONparse(text) == CHOOSE v \in JsonValues : JSONstringify(v) = text

(* ------------------------------ errors -------------------------------- *)

Err(name, message) == [name |-> name, message |-> message]

\* reading a property of null or undefined
NullReadError == Err("TypeError", <<"Cannot read properties of null">>)
\* response.json() on a body that is no JSON text
JsonSyntaxError == Err("SyntaxError", <<"Unexpected token in JSON">>)
\* fetch's rejection on a transport fault
NetworkError == Err("TypeError", <<"fetch failed">>)
\* the credential helper's rejection
AuthError == Err("Error", <<"OAuth authentication failed">>)

\* the object the catch block returns
Envelope(error, scriptId, timed) ==
  Obj(<<<<"error", Bool(TRUE)>>,
        <<"message", Str(error.message)>>,
        <<"details",
          Obj(<<<<"message", Str(error.message)>>,
                <<"stack", Str(<<"(stack)">>)>>,
                <<"scriptId", scriptId>>>>
              \o (IF timed THEN <<<<"duration", Str(<<"(duration)">>)>>>> ELSE <<>>)
              \o <<<<"timestamp", Str(<<"(timestamp)">>)>>,
                   <<"errorType", Str(<<error.name>>)>>>>)>>,
        <<"rawError",
          Obj(<<<<"name", Str(<<error.name>>)>>,
                <<"stack", Str(<<"(stack)">>)>>>>)>>>>)

(* ------------------------------- state -------------------------------- *)

VARIABLES
  tool,    \* tool[i]: which executeFunction invocation i runs
  args,    \* args[i]: the argument object the caller passed
  cred,    \* cred[i]: the credential helper's answer to invocation i
  reply,   \* reply[i]: what the network answered to its fetch
  sent,    \* sent[i]: the requests invocation i handed to fetch, in order
  pc,      \* pc[i]: the await point it is suspended at, or how it ended
  frame,   \* frame[f]: the bindings of a call (parameters, url, requestBody, headers, response)
  heap,    \* heap[r]: the headers mapping behind reference r
  result   \* result[i]: the value its promise settled with

vars == <<tool, args, cred, reply, sent, pc, frame, heap, result>>

NoFrame ==
  [a |-> NoArgs, url |-> NewURL(baseUrl \o <<"/">>), requestBody |-> Undefined,
   headers |-> 0, response |-> NoReply]

NoCred == [state |-> "none", token |-> <<>>]

NoHeaders == <<>>

\* as Frame, were the bindings declared at module level: one set for all calls
FrameShared(i) == 1

\* each call of executeFunction has bindings of its own: the destructured
\* parameters, url, requestBody, headers and response are local to the call
Frame(i) == i

\* getAuthHeaders() resolves with a mapping made for that call
AuthHeadersRef(i) == i

\* the mapping getAuthHeaders() resolves with
AuthHeaders(token) == "Authorization" :> (<<"Bearer", " ">> \o token)

\* the state when the invocations ts, called with the arguments as, begin
Start(ts, as) ==
  /\ tool = ts
  /\ args = as
  /\ pc = [i \in Inv |-> IF ts[i] = "none" THEN "idle" ELSE "start"]
  /\ frame = [f \in Inv |-> NoFrame]
  /\ heap = [r \in Inv |-> NoHeaders]
  /\ cred = [i \in Inv |-> NoCred]
  /\ sent = [i \in Inv |-> <<>>]
  /\ reply = [i \in Inv |-> NoReply]
  /\ result = [i \in Inv |-> Undefined]

\* one invocation, of either tool, with any argument object of its set
Init ==
  \E t \in {"run", "list"} : \E a \in ArgSet(t) :
    Start([i \in Inv |-> IF i = 1 THEN t ELSE "none"],
          [i \in Inv |-> IF i = 1 THEN a ELSE NoArgs])

\* NumInv invocations in flight together
InitConc ==
  \E ts \in [Inv -> {"run", "list"}] : Start(ts, [i \in Inv |-> ConcArgs(i)])

\* the replies the network may give
NetReplies ==
  IF Cardinality({i \in Inv : tool[i] # "none"}) > 1 THEN ConcReplies ELSE Replies

(* ---------------------- script_run: executeFunction ------------------- *)

\* the parameter list with its defaults
RunDefaults(a) ==
  [a EXCEPT !.parameters = Default(a.parameters, Arr(<<>>)),
            !.devMode = Default(a.devMode, Bool(TRUE)),
            !.alt = Default(a.alt, Str(<<"json">>)),
            !.prettyPrint = Default(a.prettyPrint, Bool(TRUE))]

\* prettyPrint.toString() runs whenever prettyPrint is not undefined, and
\* the default has already replaced undefined: null throws here
RunBuildThrows(a) == ~CanToString(RunDefaults(a).prettyPrint)

\* as RunParams, with the commented-out `if (key) params.append('key', key)`
\* still in force
RunParamsWithKey(a) ==
  LET d == RunDefaults(a)
  IN  (IF Truthy(d.fields) THEN <<<<<<"fields">>, ToStr(d.fields)>>>> ELSE <<>>)
        \o (IF Truthy(d.alt) THEN <<<<<<"alt">>, ToStr(d.alt)>>>> ELSE <<>>)
        \o (IF d.prettyPrint # Undefined
            THEN <<<<<<"prettyPrint">>, ToStr(d.prettyPrint)>>>> ELSE <<>>)
        \o (IF Truthy(d.key) THEN <<<<<<"key">>, ToStr(d.key)>>>> ELSE <<>>)
        \o (IF Truthy(d.quotaUser) THEN <<<<<<"quotaUser">>, ToStr(d.quotaUser)>>>> ELSE <<>>)

\* the URLSearchParams list
RunParams(a) ==
  LET d == RunDefaults(a)
  IN  (IF Truthy(d.fields) THEN <<<<<<"fields">>, ToStr(d.fields)>>>> ELSE <<>>)
        \o (IF Truthy(d.alt) THEN <<<<<<"alt">>, ToStr(d.alt)>>>> ELSE <<>>)
        \o (IF d.prettyPrint # Undefined
            THEN <<<<<<"prettyPrint">>, ToStr(d.prettyPrint)>>>> ELSE <<>>)
        \o (IF Truthy(d.quotaUser) THEN <<<<<<"quotaUser">>, ToStr(d.quotaUser)>>>> ELSE <<>>)

\* url, once url.search has been assigned
RunUrl(a) ==
  SetSearch(NewURL(baseUrl \o <<"/", "v1", "/", "scripts", "/">>
                     \o ToStr(a.scriptId) \o <<":", "run">>),
            FormSerialize(RunParams(a)))

\* requestBody
RunRequestBody(a) ==
  LET d == RunDefaults(a)
  IN  Obj(<<<<"function", d.functionName>>,
            <<"parameters", d.parameters>>,
            <<"devMode", d.devMode>>>>)

\* the synchronous head of the call, up to `await getAuthHeaders()`: it runs
\* outside the try block, so a throw rejects the promise
RunStart(i) ==
  /\ pc[i] = "start" /\ tool[i] = "run"
  /\ IF RunBuildThrows(args[i])
     THEN /\ pc' = [pc EXCEPT ![i] = "rejected"]
          /\ result' = [result EXCEPT ![i] = Str(NullReadError.message)]
          /\ UNCHANGED <<frame, cred>>
     ELSE /\ frame' = [frame EXCEPT ![Frame(i)] =
                         [@ EXCEPT !.a = args[i],
                                   !.url = RunUrl(args[i]),
                                   !.requestBody = RunRequestBody(args[i])]]
          /\ cred' = [cred EXCEPT ![i] = [@ EXCEPT !.state = "asked"]]
          /\ pc' = [pc EXCEPT ![i] = "awaitAuth"]
          /\ UNCHANGED result
  /\ UNCHANGED <<tool, args, heap, sent, reply>>

\* the mapping after headers['Content-Type'] = 'application/json'
RunHeaders(h) == ("Content-Type" :> <<"application/json">>) @@ h

\* the request handed to fetch
RunRequest(f, h) ==
  [method |-> "POST", url |-> Href(f.url), headers |-> h,
   body |-> JSONstringify(f.requestBody)]

\* getAuthHeaders() resolved: Content-Type is written into the mapping it
\* gave, and fetch is called
RunAuthResolved(i) ==
  /\ pc[i] = "awaitAuth" /\ tool[i] = "run"
  /\ \E tok \in Tokens :
       LET r == AuthHeadersRef(i)
           h == RunHeaders(AuthHeaders(tok))
       IN  /\ cred' = [cred EXCEPT ![i] = [state |-> "ok", token |-> tok]]
           /\ heap' = [heap EXCEPT ![r] = h]
           /\ frame' = [frame EXCEPT ![Frame(i)] = [@ EXCEPT !.headers = r]]
           /\ sent' = [sent EXCEPT ![i] = Append(@, RunRequest(frame[Frame(i)], h))]
  /\ pc' = [pc EXCEPT ![i] = "awaitFetch"]
  /\ UNCHANGED <<tool, args, reply, result>>

\* the catch block's return value
RunCaught(a, error) == Envelope(error, a.scriptId, FALSE)

\* getAuthHeaders() rejected
RunAuthRejected(i) ==
  /\ pc[i] = "awaitAuth" /\ tool[i] = "run"
  /\ cred' = [cred EXCEPT ![i] = [@ EXCEPT !.state = "failed"]]
  /\ result' = [result EXCEPT ![i] = RunCaught(frame[Frame(i)].a, AuthError)]
  /\ pc' = [pc EXCEPT ![i] = "returned"]
  /\ UNCHANGED <<tool, args, frame, heap, sent, reply>>

\* fetch resolved with a response of any status: response.json() is awaited
RunFetchResolved(i) ==
  /\ pc[i] = "awaitFetch" /\ tool[i] = "run"
  /\ \E r \in NetReplies :
       /\ reply' = [reply EXCEPT ![i] = r]
       /\ frame' = [frame EXCEPT ![Frame(i)] = [@ EXCEPT !.response = r]]
  /\ pc' = [pc EXCEPT ![i] = "awaitJson"]
  /\ UNCHANGED <<tool, args, heap, cred, sent, result>>

\* as RunFetchRejected, with the failed request issued once more
RunFetchRejectedRetry(i) ==
  /\ pc[i] = "awaitFetch" /\ tool[i] = "run"
  /\ sent' = [sent EXCEPT ![i] =
                Append(@, RunRequest(frame[Frame(i)], heap[frame[Frame(i)].headers]))]
  /\ UNCHANGED <<tool, args, frame, heap, cred, reply, pc, result>>

\* fetch rejected: a transport fault
RunFetchRejected(i) ==
  /\ pc[i] = "awaitFetch" /\ tool[i] = "run"
  /\ reply' = [reply EXCEPT ![i] = Unreachable]
  /\ result' = [result EXCEPT ![i] = RunCaught(frame[Frame(i)].a, NetworkError)]
  /\ pc' = [pc EXCEPT ![i] = "returned"]
  /\ UNCHANGED <<tool, args, frame, heap, cred, sent>>

\* what the call returns for a decoded 2xx body: the log call reads
\* data.response and data.error before the return
RunReturn(a, data) ==
  IF CanRead(data) THEN data ELSE RunCaught(a, NullReadError)

\* what the call returns once response.json() has settled on response r
RunSettle(a, r) ==
  IF ~IsJSON(r.body) THEN RunCaught(a, JsonSyntaxError)
  ELSE IF ~ReplyOk(r)
  THEN RunCaught(a, Err("Error", JSONstringify(JSONparse(r.body))))
  ELSE RunReturn(a, JSONparse(r.body))

\* response.json() settled
RunJsonSettled(i) ==
  /\ pc[i] = "awaitJson" /\ tool[i] = "run"
  /\ result' = [result EXCEPT ![i] =
                  RunSettle(frame[Frame(i)].a, frame[Frame(i)].response)]
  /\ pc' = [pc EXCEPT ![i] = "returned"]
  /\ UNCHANGED <<tool, args, frame, heap, cred, sent, reply>>

(* -------------- script_projects_versions_list: executeFunction -------- *)

\* the parameter list with its defaults
ListDefaults(a) ==
  [a EXCEPT !.pageSize = Default(a.pageSize, Num(100)),
            !.prettyPrint = Default(a.prettyPrint, Bool(TRUE))]

\* pageSize.toString() throws on null
ListBuildThrows(a) == ~CanToString(ListDefaults(a).pageSize)

RECURSIVE AppendAll(_, _)
AppendAll(url, list) ==
  IF list = <<>> THEN url
  ELSE AppendAll(SearchAppend(url, Head(list)[1], Head(list)[2]), Tail(list))

\* what the call appends to url.searchParams, in order
ListParams(a) ==
  LET d == ListDefaults(a)
  IN  <<<<<<"pageSize">>, ToStr(d.pageSize)>>>>
        \o (IF Truthy(d.pageToken) THEN <<<<<<"pageToken">>, ToStr(d.pageToken)>>>> ELSE <<>>)
        \o (IF Truthy(d.fields) THEN <<<<<<"fields">>, ToStr(d.fields)>>>> ELSE <<>>)
        \o <<<<<<"alt">>, <<"json">>>>>>
        \o (IF Truthy(d.key) THEN <<<<<<"key">>, ToStr(d.key)>>>> ELSE <<>>)
        \o (IF Truthy(d.prettyPrint)
            THEN <<<<<<"prettyPrint">>, ToStr(d.prettyPrint)>>>> ELSE <<>>)

\* url, once every parameter has been appended
ListUrl(a) ==
  AppendAll(NewURL(baseUrl \o <<"/", "v1", "/", "projects", "/">>
                     \o ToStr(a.scriptId) \o <<"/", "versions">>),
            ListParams(a))

\* the headers literal
ListHeaders(token) ==
  ("Accept" :> <<"application/json">>) @@ ("Authorization" :> (<<"Bearer", " ">> \o token))

\* the request handed to fetch
ListRequest(f, h) ==
  [method |-> "GET", url |-> Href(f.url), headers |-> h, body |-> <<>>]

\* the synchronous head of the call, up to `await getOAuthAccessToken()`
ListStart(i) ==
  /\ pc[i] = "start" /\ tool[i] = "list"
  /\ frame' = [frame EXCEPT ![Frame(i)] = [@ EXCEPT !.a = args[i]]]
  /\ cred' = [cred EXCEPT ![i] = [@ EXCEPT !.state = "asked"]]
  /\ pc' = [pc EXCEPT ![i] = "awaitAuth"]
  /\ UNCHANGED <<tool, args, heap, sent, reply, result>>

\* the catch block's return value
ListCaught(a, error) == Envelope(error, a.scriptId, TRUE)

\* getOAuthAccessToken() resolved: the URL and the headers are built, and
\* fetch is called; a throw while building is caught
ListAuthResolved(i) ==
  /\ pc[i] = "awaitAuth" /\ tool[i] = "list"
  /\ \E tok \in Tokens :
       /\ cred' = [cred EXCEPT ![i] = [state |-> "ok", token |-> tok]]
       /\ IF ListBuildThrows(frame[Frame(i)].a)
          THEN /\ result' = [result EXCEPT ![i] =
                               ListCaught(frame[Frame(i)].a, NullReadError)]
               /\ pc' = [pc EXCEPT ![i] = "returned"]
               /\ UNCHANGED <<frame, heap, sent>>
          ELSE LET f == [frame[Frame(i)] EXCEPT !.url = ListUrl(frame[Frame(i)].a),
                                                !.headers = Frame(i)]
                   h == ListHeaders(tok)
               IN  /\ frame' = [frame EXCEPT ![Frame(i)] = f]
                   /\ heap' = [heap EXCEPT ![Frame(i)] = h]
                   /\ sent' = [sent EXCEPT ![i] = Append(@, ListRequest(f, h))]
                   /\ pc' = [pc EXCEPT ![i] = "awaitFetch"]
                   /\ UNCHANGED result
  /\ UNCHANGED <<tool, args, reply>>

\* getOAuthAccessToken() rejected
ListAuthRejected(i) ==
  /\ pc[i] = "awaitAuth" /\ tool[i] = "list"
  /\ cred' = [cred EXCEPT ![i] = [@ EXCEPT !.state = "failed"]]
  /\ result' = [result EXCEPT ![i] = ListCaught(frame[Frame(i)].a, AuthError)]
  /\ pc' = [pc EXCEPT ![i] = "returned"]
  /\ UNCHANGED <<tool, args, frame, heap, sent, reply>>

\* fetch resolved: response.text() is awaited on a non-2xx status,
\* response.json() otherwise
ListFetchResolved(i) ==
  /\ pc[i] = "awaitFetch" /\ tool[i] = "list"
  /\ \E r \in NetReplies :
       /\ reply' = [reply EXCEPT ![i] = r]
       /\ frame' = [frame EXCEPT ![Frame(i)] = [@ EXCEPT !.response = r]]
       /\ pc' = [pc EXCEPT ![i] = IF ReplyOk(r) THEN "awaitJson" ELSE "awaitText"]
  /\ UNCHANGED <<tool, args, heap, cred, sent, result>>

\* fetch rejected: a transport fault
ListFetchRejected(i) ==
  /\ pc[i] = "awaitFetch" /\ tool[i] = "list"
  /\ reply' = [reply EXCEPT ![i] = Unreachable]
  /\ result' = [result EXCEPT ![i] = ListCaught(frame[Frame(i)].a, NetworkError)]
  /\ pc' = [pc EXCEPT ![i] = "returned"]
  /\ UNCHANGED <<tool, args, frame, heap, cred, sent>>

\* errorData: the parsed error body, or {message: errorText}
ListErrorData(text) ==
  IF IsJSON(text) THEN JSONparse(text) ELSE Obj(<<<<"message", Str(text)>>>>)

\* errorData.error?.message || errorData.message || 'Unknown error'
ListErrorText(errorData) ==
  LET m1 == OptGet(Get(errorData, "error"), "message")
      m2 == Get(errorData, "message")
  IN  IF Truthy(m1) THEN ToStr(m1)
      ELSE IF Truthy(m2) THEN ToStr(m2)
      ELSE <<"Unknown error">>

\* the Error thrown for a non-2xx response
ListApiError(status, errorData) ==
  Err("Error", <<"API Error (", ToString(status), "): ">> \o ListErrorText(errorData))

\* what the call returns once response.text() has settled on the non-2xx
\* response r: reading errorData.error throws when errorData is null
ListSettleText(a, r) ==
  LET errorData == ListErrorData(r.body)
  IN  IF CanRead(errorData)
      THEN ListCaught(a, ListApiError(r.status, errorData))
      ELSE ListCaught(a, NullReadError)

\* response.text() settled on a non-2xx response
ListTextSettled(i) ==
  /\ pc[i] = "awaitText" /\ tool[i] = "list"
  /\ result' = [result EXCEPT ![i] =
                  ListSettleText(frame[Frame(i)].a, frame[Frame(i)].response)]
  /\ pc' = [pc EXCEPT ![i] = "returned"]
  /\ UNCHANGED <<tool, args, frame, heap, cred, sent, reply>>

\* what the call returns for a decoded 2xx body: the log call reads
\* data.versions before the return
ListReturn(a, data) ==
  IF CanRead(data) THEN data ELSE ListCaught(a, NullReadError)

\* what the call returns once response.json() has settled on the 2xx response r
ListSettleJson(a, r) ==
  IF ~IsJSON(r.body) THEN ListCaught(a, JsonSyntaxError)
  ELSE ListReturn(a, JSONparse(r.body))

\* response.json() settled on a 2xx response
ListJsonSettled(i) ==
  /\ pc[i] = "awaitJson" /\ tool[i] = "list"
  /\ result' = [result EXCEPT ![i] =
                  ListSettleJson(frame[Frame(i)].a, frame[Frame(i)].response)]
  /\ pc' = [pc EXCEPT ![i] = "returned"]
  /\ UNCHANGED <<tool, args, frame, heap, cred, sent, reply>>

(* --------------------------- specifications --------------------------- *)

Next ==
  \E i \in Inv :
    \/ RunStart(i)
    \/ RunAuthResolved(i)
    \/ RunAuthRejected(i)
    \/ RunFetchResolved(i)
    \/ RunFetchRejected(i)
    \/ RunJsonSettled(i)
    \/ ListStart(i)
    \/ ListAuthResolved(i)
    \/ ListAuthRejected(i)
    \/ ListFetchResolved(i)
    \/ ListFetchRejected(i)
    \/ ListTextSettled(i)
    \/ ListJsonSettled(i)

\* one invocation, over the whole argument sets
Spec == Init /\ [][Next]_vars

\* NumInv invocations interleaved at their await points
SpecConc == InitConc /\ [][Next]_vars

(* ------------------------------- claims ------------------------------- *)

Calls == {i \in Inv : tool[i] # "none"}

\* the requests invocation i handed to fetch
Requests(i) == {sent[i][k] : k \in 1..Len(sent[i])}

\* the shape {error: true, message, details, rawError}
IsEnvelope(v) ==
  /\ v.type = "object"
  /\ {v.o[k][1] : k \in 1..Len(v.o)} = {"error", "message", "details", "rawError"}
  /\ Get(v, "error") = Bool(TRUE)
  /\ Get(v, "message").type = "string"

\* network answered invocation i with a response
Answered(i) == reply[i] \notin {NoReply, Unreachable}

\* credential failure, transport failure, non-2xx response or undecodable body
Failed(i) ==
  \/ cred[i].state = "failed"
  \/ reply[i] = Unreachable
  \/ Answered(i) /\ (~ReplyOk(reply[i]) \/ ~IsJSON(reply[i].body))

\* C1: every invocation of either tool ends by returning a value, never by
\* raising, and every failure yields the envelope
\* {error: true, message, details, rawError}.
C1_AlwaysReturnsNeverRaises ==
  \A i \in Calls :
    /\ pc[i] # "rejected"
    /\ pc[i] = "returned" /\ Failed(i) => IsEnvelope(result[i])

\* C2: a fetch is issued only if every documented required field of the
\* tool is present in the arguments.
C2_NoRequestWithoutRequiredFields ==
  \A i \in Calls :
    sent[i] # <<>> => \A n \in Required(tool[i]) : args[i][n] # Undefined

\* C3: on a 2xx response with a decodable JSON body B, the value returned is
\* exactly B.
C3_PassThrough ==
  \A i \in Calls :
    pc[i] = "returned" /\ Answered(i) /\ ReplyOk(reply[i]) /\ IsJSON(reply[i].body)
      => result[i] = JSONparse(reply[i].body)

\* the remote error's message text: error.message or message of a JSON
\* object, the text itself when the body is no JSON, nothing otherwise
RemoteText(body) ==
  IF ~IsJSON(body) THEN body
  ELSE LET v == JSONparse(body)
           m1 == OptGet(OptGet(v, "error"), "message")
           m2 == OptGet(v, "message")
       IN  IF m1.type = "string" THEN m1.s
           ELSE IF m2.type = "string" THEN m2.s
           ELSE <<>>

\* C4: after a non-2xx response the envelope's message carries the remote
\* status and the remote message text, whatever the error body; after a
\* transport fault it is the local fault's message.
C4_MessageCarriesRemoteError ==
  \A i \in Calls :
    pc[i] = "returned" =>
      /\ Answered(i) /\ ~ReplyOk(reply[i]) =>
           /\ IsEnvelope(result[i])
           /\ Contains(Get(result[i], "message").s, <<ToString(reply[i].status)>>)
           /\ Contains(Get(result[i], "message").s, RemoteText(reply[i].body))
      /\ reply[i] = Unreachable =>
           /\ IsEnvelope(result[i])
           /\ Get(result[i], "message").s = NetworkError.message

RunQueryNames == {<<"fields">>, <<"alt">>, <<"prettyPrint">>, <<"quotaUser">>}

CredentialNames == {<<"key">>, <<"access_token">>, <<"oauth_token">>}

\* C5: the query string of every script_run request has only keys among
\* fields, alt, prettyPrint and quotaUser; key, access_token and oauth_token
\* never appear in it, whatever the arguments.
C5_RunQueryHasNoCredentials ==
  \A i \in Calls :
    tool[i] = "run" =>
      \A q \in Requests(i) :
        /\ QueryKeys(q.url) \subseteq RunQueryNames
        /\ QueryKeys(q.url) \cap CredentialNames = {}

\* a script_run request has gone out for a call that supplied key,
\* access_token and oauth_token together with fields and quotaUser
C5_Witness ==
  \E i \in Calls :
    /\ tool[i] = "run" /\ sent[i] # <<>>
    /\ args[i].key = Secret /\ args[i].access_token = Secret /\ args[i].oauth_token = Secret
    /\ QueryKeys(sent[i][1].url) = RunQueryNames

ListQueryNames ==
  {<<"pageSize">>, <<"pageToken">>, <<"fields">>, <<"alt">>, <<"prettyPrint">>}

\* a scriptId of letters and digits only
PlainId(v) == v.type = "string" /\ \A k \in 1..Len(v.s) : v.s[k] \notin {"/", "\\", "?", "#", " ", "."}

\* C6: every script_projects_versions_list request is a GET to
\* /v1/projects/{scriptId}/versions whose query has only pageSize, pageToken,
\* fields, alt and prettyPrint; no credential argument appears in the URL.
\* Stated for scriptIds of letters and digits, whatever the other arguments.
C6_ListQueryHasNoCredentials ==
  \A i \in Calls :
    tool[i] = "list" /\ PlainId(args[i].scriptId) =>
      \A q \in Requests(i) :
        /\ q.method = "GET"
        /\ Pathname(NewURL(q.url))
             = <<"/", "v1", "/", "projects", "/">> \o args[i].scriptId.s \o <<"/", "versions">>
        /\ QueryKeys(q.url) \subseteq ListQueryNames
        /\ QueryKeys(q.url) \cap CredentialNames = {}
        /\ DOMAIN q.headers = {"Accept", "Authorization"}

\* a value as it reads back from JSON
AsJSON(v) == JSONparse(JSONstringify(v))

\* C7: an omitted optional field takes its default (devMode true, parameters
\* [], prettyPrint true, pageSize 100) and a supplied one, false, 0 and []
\* included, is the value forwarded.
C7_DefaultsAndExplicitValues ==
  \A i \in Calls :
    \A q \in Requests(i) :
      IF tool[i] = "run"
      THEN /\ Get(JSONparse(q.body), "devMode") = Default(args[i].devMode, Bool(TRUE))
           /\ Get(JSONparse(q.body), "parameters")
                = AsJSON(Default(args[i].parameters, Arr(<<>>)))
           /\ QueryValue(q.url, <<"prettyPrint">>)
                = ToStr(Default(args[i].prettyPrint, Bool(TRUE)))
      ELSE /\ QueryValue(q.url, <<"pageSize">>)
                = ToStr(Default(args[i].pageSize, Num(100)))
           /\ QueryValue(q.url, <<"prettyPrint">>)
                = ToStr(Default(args[i].prettyPrint, Bool(TRUE)))

\* a call of script_run with scriptId, functionName and parameters given and
\* devMode omitted
C8_Case(i) ==
  /\ tool[i] = "run"
  /\ args[i].scriptId.type = "string"
  /\ args[i].functionName.type = "string"
  /\ args[i].parameters.type = "array"
  /\ args[i].devMode = Undefined

\* its one request is a POST to /v1/scripts/X:run on the base, with the body
\* {function: f, parameters: P, devMode: true}
C8_Shape(i) ==
  /\ Len(sent[i]) = 1
  /\ sent[i][1].method = "POST"
  /\ SubSeq(sent[i][1].url, 1, Len(baseUrl)) = baseUrl
  /\ Pathname(NewURL(sent[i][1].url))
       = <<"/", "v1", "/", "scripts", "/">> \o args[i].scriptId.s \o <<":", "run">>
  /\ IsJSON(sent[i][1].body)
  /\ JSONparse(sent[i][1].body)
       = Obj(<<<<"function", args[i].functionName>>,
               <<"parameters", args[i].parameters>>,
               <<"devMode", Bool(TRUE)>>>>)

\* C8 as stated: for every scriptId X, functionName f and parameters P, the
\* request is a POST to /v1/scripts/X:run with body {function: f,
\* parameters: P, devMode: true}.
C8_RequestForEveryScriptId ==
  \A i \in Calls : C8_Case(i) /\ sent[i] # <<>> => C8_Shape(i)

\* at most one request, none without a credential, and the one request
\* carries the credential that was obtained
C9_AtMostOne(i) ==
  /\ Len(sent[i]) <= 1
  /\ cred[i].state # "ok" => sent[i] = <<>>
  /\ \A q \in Requests(i) :
       q.headers["Authorization"] = <<"Bearer", " ">> \o cred[i].token

BuildFaults(i) == tool[i] = "list" /\ ListBuildThrows(args[i])

AloneRequest(i) ==
  IF tool[i] = "run"
  THEN [method |-> "POST", url |-> Href(RunUrl(args[i])),
        headers |-> RunHeaders(AuthHeaders(cred[i].token)),
        body |-> JSONstringify(RunRequestBody(args[i]))]
  ELSE [method |-> "GET", url |-> Href(ListUrl(args[i])),
        headers |-> ListHeaders(cred[i].token), body |-> <<>>]

\* the value invocation i returns when it runs alone, from its own
\* arguments and the answers to its own credential call and fetch
AloneResult(i) ==
  IF tool[i] = "run"
  THEN CASE cred[i].state = "failed" -> RunCaught(args[i], AuthError)
         [] reply[i] = Unreachable -> RunCaught(args[i], NetworkError)
         [] OTHER -> RunSettle(args[i], reply[i])
  ELSE CASE cred[i].state = "failed" -> ListCaught(args[i], AuthError)
         [] reply[i] = Unreachable -> ListCaught(args[i], NetworkError)
         [] ListBuildThrows(args[i]) -> ListCaught(args[i], NullReadError)
         [] ReplyOk(reply[i]) -> ListSettleJson(args[i], reply[i])
         [] OTHER -> ListSettleText(args[i], reply[i])

=============================================================================
